---- MODULE Spec2Model ----
(***************************************************************************)
(* A model of tastypie/authorization.py: RelationalAuthorization, the      *)
(* relational (attribute path) authorization rules of a tastypie resource. *)
(*                                                                         *)
(* Python strings are sequences of one-character strings, so that          *)
(* str.split("__") and the unpacking of a string into two names are        *)
(* computed, not assumed.  Python values are records [t, n, s]: a type     *)
(* tag, an integer payload and a string payload.  The outcome of a Python  *)
(* expression is a record [exc, val]: the exception that left it ("" when  *)
(* none did) and the value it returned.                                    *)
(***************************************************************************)
EXTENDS Integers, Sequences, FiniteSets, TLC

(***************************************************************************)
(* Bounds of the model.                                                    *)
(***************************************************************************)
MaxRules == 2
MaxObjs == 2
MaxClock == 1

(***************************************************************************)
(* String literals.                                                        *)
(***************************************************************************)
s_now == <<"n","o","w">>
s_yesterday == <<"y","e","s","t","e","r","d","a","y">>
s_tomorrow == <<"t","o","m","o","r","r","o","w">>
s_last_week == <<"l","a","s","t","_","w","e","e","k">>
s_next_week == <<"n","e","x","t","_","w","e","e","k">>
s_user == <<"u","s","e","r">>
s_request == <<"r","e","q","u","e","s","t">>
s_superstring == <<"s","u","p","e","r","s","t","r","i","n","g">>
s_adminuser == <<"a","d","m","i","n","u","s","e","r">>
s_nosuch == <<"n","o","s","u","c","h">>
s_id == <<"i","d">>
s_is_super == <<"i","s","_","s","u","p","e","r">>
s_name == <<"n","a","m","e">>
s_owner == <<"o","w","n","e","r">>
s_status == <<"s","t","a","t","u","s">>
s_level == <<"l","e","v","e","l">>
s_method == <<"m","e","t","h","o","d">>
s_GET == <<"G","E","T">>
s_toordinal == <<"t","o","o","r","d","i","n","a","l">>
s_count == <<"c","o","u","n","t">>
s_find == <<"f","i","n","d">>
s_index == <<"i","n","d","e","x">>
s_join == <<"j","o","i","n">>
s_strip == <<"s","t","r","i","p">>
s_in == <<"i","n">>
s_eq == <<"e","q">>
s_ne == <<"n","e">>
s_lt == <<"l","t">>
s_le == <<"l","e">>
s_gt == <<"g","t">>
s_ge == <<"g","e">>
s_gte == <<"g","t","e">>
s_lte == <<"l","t","e">>
s_contains == <<"c","o","n","t","a","i","n","s">>
s_open == <<"o","p","e","n">>
Sep == <<"_","_">>

\* a "__" b, the way the rules of a resource spell a path
Path2(a, b) == a \o Sep \o b

(***************************************************************************)
(* str.split("__"): the pieces between the non-overlapping occurrences of  *)
(* the separator, scanned from the left.  "".split("__") is [""].          *)
(***************************************************************************)
RECURSIVE SplitFrom(_, _)
SplitFrom(s, cur) ==
  IF s = <<>> THEN <<cur>>
  ELSE IF Len(s) >= 2 /\ s[1] = "_" /\ s[2] = "_"
       THEN <<cur>> \o SplitFrom(Tail(Tail(s)), <<>>)
       ELSE SplitFrom(Tail(s), Append(cur, s[1]))

Split(s) == SplitFrom(s, <<>>)

\* a in b for two strings: a is a substring of b
IsSubstr(a, b) ==
  \E i \in 0..(Len(b) - Len(a)) : SubSeq(b, i + 1, i + Len(a)) = a

\* the code points of the characters the model uses, in their order
Alphabet ==
  <<"E","G","T","_","a","b","c","d","e","f","g","h","i","j","k","l","m",
    "n","o","p","q","r","s","t","u","v","w","x","y","z">>

Ord(c) == CHOOSE i \in 1..Len(Alphabet) : Alphabet[i] = c

\* a < b for two strings
RECURSIVE StrLess(_, _)
StrLess(a, b) ==
  IF b = <<>> THEN FALSE
  ELSE IF a = <<>> THEN TRUE
  ELSE IF a[1] = b[1] THEN StrLess(Tail(a), Tail(b))
  ELSE Ord(a[1]) < Ord(b[1])

(***************************************************************************)
(* Python values.                                                          *)
(***************************************************************************)
\* User.objects.get(pk=pk) with pk = 2
UserPk == 2

PyNone == [t |-> "none", n |-> 0, s |-> <<>>]
PyNotImplemented == [t |-> "notimpl", n |-> 0, s |-> <<>>]
PyInt(i) == [t |-> "int", n |-> i, s |-> <<>>]
PyBool(b) == [t |-> "bool", n |-> IF b THEN 1 ELSE 0, s |-> <<>>]
PyStr(s) == [t |-> "str", n |-> 0, s |-> s]
\* an instance of a subclass of str; n names its instance attributes
PyStrObj(k, s) == [t |-> "strobj", n |-> k, s |-> s]
\* a datetime, in days
PyDt(d) == [t |-> "dt", n |-> d, s |-> <<>>]
\* a row of the user table; n is its is_super column
PyUser(sup) == [t |-> "user", n |-> IF sup THEN 1 ELSE 0, s |-> <<>>]
PyRequest(i) == [t |-> "request", n |-> i, s |-> <<>>]
\* a candidate object of the resource, or an object it refers to
PyObj(i) == [t |-> "obj", n |-> i, s |-> <<>>]
\* what getattr answers for a name the value does not have
Missing == [t |-> "missing", n |-> 0, s |-> <<>>]

\* the methods of str the model names (all need no "__" to be spelled)
StrMethods == <<s_count, s_find, s_index, s_join, s_strip>>
MethIndex(name) == CHOOSE i \in 1..Len(StrMethods) : StrMethods[i] = name
IsStrMethod(name) == \E i \in 1..Len(StrMethods) : StrMethods[i] = name
\* self.name for a method of str, and d.name for a method of datetime
PyStrMeth(self, name) == [t |-> "strmeth", n |-> MethIndex(name), s |-> self]
PyDtMeth(d, name) == [t |-> "dtmeth", n |-> d, s |-> name]

Ret(v) == [exc |-> "", val |-> v]
Exc(e) == [exc |-> e, val |-> PyNone]
Raised(o) == o.exc # ""

IsStrLike(v) == v.t \in {"str", "strobj"}
IsNumber(v) == v.t \in {"int", "bool"}

\* bool(v)
Truthy(v) ==
  CASE v.t = "none" -> FALSE
    [] v.t \in {"int", "bool"} -> v.n # 0
    [] v.t \in {"str", "strobj"} -> v.s # <<>>
    [] OTHER -> TRUE

\* a == b
PyEq(a, b) ==
  CASE IsNumber(a) /\ IsNumber(b) -> a.n = b.n
    [] IsStrLike(a) /\ IsStrLike(b) -> a.s = b.s
    [] a.t = "dt" /\ b.t = "dt" -> a.n = b.n
    [] a.t = "user" /\ b.t = "user" -> TRUE
    [] OTHER -> a = b

(***************************************************************************)
(* The objects of the model: two candidates with an owner each, the        *)
(* attributes a subclass of str may carry, and getattr.                    *)
(***************************************************************************)
ObjAttr(i, name) ==
  CASE i = 1 /\ name = s_owner -> PyObj(3)
    [] i = 1 /\ name = s_status -> PyStr(s_open)
    [] i = 1 /\ name = s_level -> PyInt(0)
    [] i = 2 /\ name = s_owner -> PyObj(4)
    [] i = 2 /\ name = s_status -> PyStr(<<>>)
    [] i = 2 /\ name = s_level -> PyInt(1)
    [] i = 3 /\ name = s_id -> PyInt(UserPk)
    [] i = 4 /\ name = s_id -> PyInt(UserPk + 1)
    [] OTHER -> Missing

StrObjAttr(k, name) ==
  CASE k = 1 /\ name = s_level -> PyInt(0)
    [] k = 2 /\ name = s_level -> PyInt(1)
    [] k = 3 /\ name = s_gte -> PyStr(<<>>)
    [] k = 4 /\ name = s_in -> PyNone
    [] k = 5 /\ name = s_count -> PyInt(0)
    [] OTHER -> Missing

\* getattr(v, name, Missing), for the names that hold no "__"
GetAttr(v, name) ==
  CASE v.t = "user" ->
         IF name = s_id THEN PyInt(UserPk)
         ELSE IF name = s_is_super THEN PyBool(v.n = 1)
         ELSE Missing
    [] v.t = "request" -> IF name = s_method THEN PyStr(s_GET) ELSE Missing
    [] v.t = "dt" -> IF name = s_toordinal THEN PyDtMeth(v.n, name) ELSE Missing
    [] v.t = "obj" -> ObjAttr(v.n, name)
    [] v.t = "str" -> IF IsStrMethod(name) THEN PyStrMeth(v.s, name) ELSE Missing
    [] v.t = "strobj" ->
         IF StrObjAttr(v.n, name) # Missing THEN StrObjAttr(v.n, name)
         ELSE IF IsStrMethod(name) THEN PyStrMeth(v.s, name)
         ELSE Missing
    [] OTHER -> Missing

\* callable(v)
Callable(v) == v.t \in {"strmeth", "dtmeth"}

\* v()
Call(v) ==
  CASE v.t = "dtmeth" -> Ret(PyInt(v.n))
    [] v.t = "strmeth" ->
         IF StrMethods[v.n] = s_strip THEN Ret(PyStr(v.s)) ELSE Exc("TypeError")
    [] OTHER -> Exc("TypeError")

(***************************************************************************)
(* introspect(item, lookups): getattr along the path, calling what is      *)
(* callable; a missing name raises LookupError.                            *)
(***************************************************************************)
RECURSIVE introspect(_, _)
introspect(item, lookups) ==
  IF lookups = <<>> THEN Ret(item)
  ELSE LET child == GetAttr(item, Head(lookups))
       IN IF child = Missing THEN Exc("LookupError")
          ELSE IF Callable(child)
               THEN LET r == Call(child)
                    IN IF Raised(r) THEN r ELSE introspect(r.val, Tail(lookups))
               ELSE introspect(child, Tail(lookups))

(***************************************************************************)
(* lhslookup(obj, lhs, rhs).                                               *)
(***************************************************************************)
\* TRANSLATE_LOOKUPS.get(name, name)
TRANSLATE_LOOKUPS(name) ==
  IF name = s_gte THEN s_ge
  ELSE IF name = s_lte THEN s_le
  ELSE name

\* the loop over lookups[:-1]: getattr with no default
RECURSIVE Traverse(_, _)
Traverse(v, lookups) ==
  IF lookups = <<>> THEN Ret(v)
  ELSE LET child == GetAttr(v, Head(lookups))
       IN IF child = Missing THEN Exc("AttributeError")
          ELSE Traverse(child, Tail(lookups))

\* lhs in rhs
PyIn(lhs, rhs) ==
  IF IsStrLike(rhs)
  THEN IF IsStrLike(lhs) THEN Ret(PyBool(IsSubstr(lhs.s, rhs.s)))
       ELSE Exc("TypeError")
  ELSE Exc("TypeError")

Ordered(name, a, b) ==
  CASE name = s_lt -> a < b
    [] name = s_le -> a <= b
    [] name = s_gt -> a > b
    [] name = s_ge -> a >= b

StrOrdered(name, a, b) ==
  CASE name = s_lt -> StrLess(a, b)
    [] name = s_le -> StrLess(a, b) \/ a = b
    [] name = s_gt -> StrLess(b, a)
    [] name = s_ge -> StrLess(b, a) \/ a = b

SameKind(a, b) ==
  \/ IsNumber(a) /\ IsNumber(b)
  \/ IsStrLike(a) /\ IsStrLike(b)
  \/ a.t = b.t

\* raise_this(LookupError(...))
raise_this(exc) == Exc(exc)

\* getattr(lhs, "__" + name + "__", lambda u: raise_this(LookupError))(rhs)
Dunder(lhs, name, rhs) ==
  CASE name \in {s_eq, s_ne} ->
         IF SameKind(lhs, rhs)
         THEN Ret(PyBool(PyEq(lhs, rhs) = (name = s_eq)))
         ELSE Ret(PyNotImplemented)
    [] name \in {s_lt, s_le, s_gt, s_ge} ->
         IF IsNumber(lhs) /\ IsNumber(rhs)
         THEN Ret(PyBool(Ordered(name, lhs.n, rhs.n)))
         ELSE IF lhs.t = "dt" /\ rhs.t = "dt"
         THEN Ret(PyBool(Ordered(name, lhs.n, rhs.n)))
         ELSE IF IsStrLike(lhs) /\ IsStrLike(rhs)
         THEN Ret(PyBool(StrOrdered(name, lhs.s, rhs.s)))
         ELSE Ret(PyNotImplemented)
    [] name = s_contains /\ IsStrLike(lhs) ->
         IF IsStrLike(rhs) THEN Ret(PyBool(IsSubstr(rhs.s, lhs.s)))
         ELSE Exc("TypeError")
    [] OTHER -> raise_this("LookupError")

\* LastLeg with the attribute tested for None instead of for truth
LastLegNotNone(lhs, last, rhs) ==
  LET lastleg == GetAttr(lhs, last)
  IN IF lastleg # Missing /\ lastleg # PyNone THEN Ret(PyBool(PyEq(lastleg, rhs)))
     ELSE IF last = s_in THEN PyIn(lhs, rhs)
     ELSE Dunder(lhs, TRANSLATE_LOOKUPS(last), rhs)

\* lines 171-180, with lhs the value the loop over lookups[:-1] ended on
LastLeg(lhs, last, rhs) ==
  LET lastleg == GetAttr(lhs, last)
  IN IF lastleg # Missing /\ Truthy(lastleg) THEN Ret(PyBool(PyEq(lastleg, rhs)))
     ELSE IF last = s_in THEN PyIn(lhs, rhs)
     ELSE Dunder(lhs, TRANSLATE_LOOKUPS(last), rhs)

\* The traversal starts from lhs, the path itself, and never reads obj.
lhslookup(obj, lhs, rhs) ==
  LET lookups == Split(lhs.s)
      n == Len(lookups)
      l == Traverse(lhs, SubSeq(lookups, 1, n - 1))
  IN IF Raised(l) THEN l ELSE LastLeg(l.val, lookups[n], rhs)

(***************************************************************************)
(* The primitives.  A provider is a record [k, n]: datetime.datetime.now,  *)
(* timediff(n), lambda:self.user and lambda:self.request of engine n, a    *)
(* constructor's custom provider n, or "absent" for what dict.get answers  *)
(* with None.                                                              *)
(***************************************************************************)
Absent == [k |-> "absent", n |-> 0]

\* timediff(d): lambda: datetime.datetime.now() + datetime.timedelta(d)
timediff(d) == [k |-> "timediff", n |-> d]

PrimNames ==
  {s_now, s_yesterday, s_tomorrow, s_last_week, s_next_week, s_user, s_request,
   s_superstring}

\* the class attribute PRIMITIVES as the class statement leaves it
ClassPrimitives ==
  [name \in PrimNames |->
     CASE name = s_now -> [k |-> "now", n |-> 0]
       [] name = s_yesterday -> timediff(-1)
       [] name = s_tomorrow -> timediff(1)
       [] name = s_last_week -> timediff(-7)
       [] name = s_next_week -> timediff(7)
       [] OTHER -> Absent]

\* the primitives argument of a constructor: the default {} or the
\* docstring's 'superstring': lambda: u"adminuser"
NoPrimitives == {}
SuperstringPrimitives == {[name |-> s_superstring, prov |-> [k |-> "const", n |-> 1]]}
PrimArgs == {NoPrimitives, SuperstringPrimitives}

\* what custom provider n returns
ConstVal(n) == PyStr(s_adminuser)

\* __init__(self, primitives) on the dict PRIMITIVES names: the dict of the
\* class, which every instance shares
RegisterPrimitives(reg, self, primitives) ==
  [name \in PrimNames |->
     IF \E a \in primitives : a.name = name
     THEN (CHOOSE a \in primitives : a.name = name).prov
     ELSE IF name = s_user THEN [k |-> "self_user", n |-> self]
     ELSE IF name = s_request THEN [k |-> "self_request", n |-> self]
     ELSE reg[name]]

\* self.PRIMITIVES.get(name)
PrimitivesGet(reg, name) == IF name \in PrimNames THEN reg[name] ELSE Absent

\* provider(): the value a provider returns when it is called
Provide(p, engs, now) ==
  CASE p.k = "now" -> Ret(PyDt(now))
    [] p.k = "timediff" -> Ret(PyDt(now + p.n))
    [] p.k = "self_user" ->
         IF engs[p.n].user = Missing THEN Exc("AttributeError")
         ELSE Ret(engs[p.n].user)
    [] p.k = "self_request" ->
         IF engs[p.n].request = Missing THEN Exc("AttributeError")
         ELSE Ret(engs[p.n].request)
    [] p.k = "const" -> Ret(ConstVal(p.n))
    [] OTHER -> Exc("TypeError")

(***************************************************************************)
(* get_user(request): the row pk = 2 of the user table, as the database    *)
(* holds it when it is asked; when there is no such row the handler reads  *)
(* settings, a name the module never imports.                              *)
(***************************************************************************)
DbStates == {"none", "plain", "super"}

get_user(request, rows) ==
  IF rows = "none" THEN Exc("NameError") ELSE Ret(PyUser(rows = "super"))

(***************************************************************************)
(* Rules.  A rule is [sentinel, lhs, rhs]; sentinel "" is a naked rule.    *)
(***************************************************************************)
Naked(lhs, rhs) == [sentinel |-> "", lhs |-> lhs, rhs |-> rhs]
Gated(sentinel, lhs, rhs) == [sentinel |-> sentinel, lhs |-> lhs, rhs |-> rhs]

\* isnot_super(user): user.is_super == False
isnot_super(user) == PyEq(GetAttr(user, s_is_super), PyBool(FALSE))

\* sentinel(user)
Sentinel(name, user) ==
  IF name = "isnot_super" THEN isnot_super(user)
  ELSE Truthy(GetAttr(user, s_is_super))

\* lookups[lhs] = rhs on a dict held as a set of [k, v]
DictSet(d, key, val) == {x \in d : x.k # key} \cup {[k |-> key, v |-> val]}
DictKeys(d) == {x.k : x \in d}
DictGet(d, key) == (CHOOSE x \in d : x.k = key).v

\* ApplyRule with the sentinel never asked
ApplyRuleUngated(lookups, rule, user) == DictSet(lookups, rule.lhs, rule.rhs)

\* one turn of the loop over the rules (lines 147-153)
ApplyRule(lookups, rule, user) ==
  IF rule.sentinel # ""
  THEN IF Sentinel(rule.sentinel, user) THEN DictSet(lookups, rule.lhs, rule.rhs)
       ELSE lookups
  ELSE DictSet(lookups, rule.lhs, rule.rhs)

\* one turn of the loop over lookups.items() (lines 157-158)
ResolveRhs(v, reg, engs, now) ==
  LET parts == Split(v)
      root_item == Provide(PrimitivesGet(reg, parts[1]), engs, now)
  IN IF Raised(root_item) THEN root_item
     ELSE introspect(root_item.val, Tail(parts))

\* for lhs, rhs in <dict>: the dict yields its keys, and a key is unpacked
\* into two names, which a string of two characters alone allows
UnpackKey(key) ==
  IF Len(key) = 2 THEN Ret(<<PyStr(<<key[1]>>), PyStr(<<key[2]>>)>>)
  ELSE Exc("ValueError")

\* CompareKey with the key kept whole: for lhs in <dict>, lhslookup(obj, lhs, lhs)
CompareKeyWholePath(obj, key) == lhslookup(obj, PyStr(key), PyStr(key))

\* one turn of the loop of validate_detail (lines 190-192): the exception,
\* or whether the loop goes on
CompareKey(obj, key) ==
  LET u == UnpackKey(key)
  IN IF Raised(u) THEN Exc(u.exc) ELSE lhslookup(obj, u.val[1], u.val[2])

\* Propagate with an except clause that answers False
PropagateAsDeny(o) == Ret(PyBool(FALSE))

\* no handler stands between a raise and the caller
Propagate(o) == o

\* ProcessObject with allowed.insert(0, obj)
ProcessObjectFront(allowed, obj, verdict) ==
  IF Truthy(verdict) THEN <<obj>> \o allowed ELSE allowed

\* process_list, lines 207-208
ProcessObject(allowed, obj, verdict) ==
  IF Truthy(verdict) THEN Append(allowed, obj) ELSE allowed

(***************************************************************************)
(* normalize_lookups and validate_detail run with no other thread about.   *)
(* The order in which a dict yields its items is not fixed by the          *)
(* language, so each is the set of outcomes the orders allow.              *)
(***************************************************************************)
\* the loop over the rules, from rule i on
RECURSIVE BuildLookups(_, _, _, _)
BuildLookups(rs, i, lookups, user) ==
  IF i > Len(rs) THEN lookups
  ELSE BuildLookups(rs, i + 1, ApplyRule(lookups, rs[i], user), user)

\* the loop over lookups.items(): [exc, out], out being lookups_out
RECURSIVE ResolveAll(_, _, _, _, _, _)
ResolveAll(lookups, todo, out, reg, engs, now) ==
  IF todo = {} THEN {[exc |-> "", out |-> out]}
  ELSE UNION {
         LET o == ResolveRhs(DictGet(lookups, key), reg, engs, now)
         IN IF Raised(o) THEN {[exc |-> o.exc, out |-> {}]}
            ELSE ResolveAll(lookups, todo \ {key}, DictSet(out, key, o.val),
                            reg, engs, now)
         : key \in todo }

normalize_lookups(self, rs, request, rows, reg, engs, now) ==
  LET u == get_user(request, rows)
      engs1 == [engs EXCEPT ![self].user = u.val, ![self].request = request]
      lookups == BuildLookups(rs, 1, {}, u.val)
  IN IF Raised(u) THEN {[exc |-> u.exc, out |-> {}]}
     ELSE ResolveAll(lookups, DictKeys(lookups), {}, reg, engs1, now)

\* the loop of validate_detail over the keys still to come
RECURSIVE ValidateLoop(_, _)
ValidateLoop(obj, todo) ==
  IF todo = {} THEN {Ret(PyBool(TRUE))}
  ELSE UNION {
         LET o == CompareKey(obj, key)
         IN IF Raised(o) THEN {Propagate(o)}
            ELSE IF ~Truthy(o.val) THEN {Ret(PyBool(FALSE))}
            ELSE ValidateLoop(obj, todo \ {key})
         : key \in todo }

validate_detail(self, obj, rs, request, rows, reg, engs, now) ==
  UNION { IF n.exc # "" THEN {Propagate(Exc(n.exc))}
          ELSE ValidateLoop(obj, DictKeys(n.out))
          : n \in normalize_lookups(self, rs, request, rows, reg, engs, now) }

(***************************************************************************)
(* State.                                                                  *)
(***************************************************************************)
VARIABLES
  PRIMITIVES,  \* the dict of the class
  engines,     \* each instance: built, self.user, self.request
  rules,       \* the rules of the resource, by operation
  clock,       \* datetime.datetime.now(), in days
  calls,       \* each thread's authorization call
  probe,       \* arguments and result of one lhslookup
  trial        \* arguments and results of validate_detail run on its own

vars == <<PRIMITIVES, engines, rules, clock, calls, probe, trial>>

Engines == {1, 2}
Threads == {1, 2}
Ops == {"create", "update", "delete"}
Candidates == {1, 2}

RuleUniverse ==
  { Naked(Path2(s_owner, s_id), Path2(s_user, s_id)),
    Naked(s_id, Path2(s_now, s_toordinal)),
    Gated("isnot_super", Path2(s_owner, s_id), Path2(s_user, s_id)),
    Naked(Path2(s_owner, s_id), Path2(s_nosuch, s_id)),
    Naked(s_id, Path2(s_user, s_name)) }

\* the sequences of at most n elements of S
SeqsUpTo(S, n) == UNION {[1..m -> S] : m \in 0..n}

RuleFor(op) == IF op \in DOMAIN rules THEN rules[op] ELSE <<>>

\* an instance: whether it is built, self.user and self.request
NoEngine == [built |-> FALSE, user |-> Missing, request |-> Missing]

NoCall ==
  [pc |-> "idle", kind |-> "", op |-> "", eng |-> 0, req |-> 0, objs |-> <<>>,
   i |-> 0, ri |-> 0, lookups |-> {}, todo |-> {}, out |-> {}, allowed |-> <<>>,
   res |-> Ret(PyNone),
   \* history, for the properties: the user get_user gave the call last,
   \* what the call has read as user and request since, the normalizations
   \* it ran, each object's obligations and verdict, the lookup failure it
   \* met, the rules a sentinel kept out
   own |-> Missing, seen |-> {}, norms |-> 0, obls |-> <<>>, verdicts |-> <<>>,
   fail |-> "", gated |-> {}]

NoProbe ==
  [st |-> "off", obj |-> PyNone, lhs |-> PyNone, rhs |-> PyNone, res |-> Ret(PyNone)]

NoTrial ==
  [st |-> "off", rs |-> <<>>, extra |-> Naked(<<>>, <<>>), rows |-> "none",
   obj |-> 0, base |-> {}, more |-> {}]

Built == {e \in Engines : engines[e].built}

(***************************************************************************)
(* The steps of a call.  A thread may be preempted wherever it reads or    *)
(* writes what the instance or the class holds.                            *)
(***************************************************************************)
\* the call ends: a detail call returns verdict, a list call goes on to its
\* next object or returns allowed
FinishObject(c, verdict) ==
  LET c1 == [c EXCEPT !.verdicts = Append(@, verdict)]
      c2 == [c1 EXCEPT !.allowed = ProcessObject(@, c.objs[c.i], verdict)]
  IN IF c.kind = "detail" THEN [c1 EXCEPT !.pc = "done", !.res = Ret(verdict)]
     ELSE IF c.i = Len(c.objs) THEN [c2 EXCEPT !.pc = "done", !.res = Ret(PyNone)]
     ELSE [c2 EXCEPT !.pc = "user", !.i = @ + 1]

\* an exception leaves the step
Abort(c, o) ==
  LET r == Propagate(o)
  IN IF Raised(r) THEN [c EXCEPT !.pc = "done", !.res = r]
     ELSE FinishObject(c, r.val)

\* normalize_lookups has returned lookups_out: the loop of validate_detail
EnterCompare(c) ==
  LET c1 == [c EXCEPT !.obls = Append(@, c.out)]
  IN IF c.out = {} THEN FinishObject(c1, PyBool(TRUE))
     ELSE [c1 EXCEPT !.pc = "compare", !.todo = DictKeys(c.out)]

\* the loop over the rules has ended: the loop over lookups.items()
EnterResolve(c) ==
  IF c.lookups = {} THEN EnterCompare([c EXCEPT !.out = {}])
  ELSE [c EXCEPT !.pc = "resolve", !.todo = DictKeys(c.lookups), !.out = {}]

NewCall(kind, op, e, req, objs) ==
  [NoCall EXCEPT !.pc = "user", !.kind = kind, !.op = op, !.eng = e, !.req = req,
                 !.objs = objs, !.i = 1]

\* create_detail, update_detail, delete_detail
DetailCall(t) ==
  /\ calls[t].pc = "idle"
  /\ \E op \in Ops, e \in Built, o \in Candidates :
       calls' = [calls EXCEPT ![t] = NewCall("detail", op, e, t, <<o>>)]
  /\ UNCHANGED <<PRIMITIVES, engines, rules, clock, probe, trial>>

\* create_list, update_list, delete_list; an empty list returns at once
ListCall(t) ==
  /\ calls[t].pc = "idle"
  /\ \E op \in Ops, e \in Built, objs \in SeqsUpTo(Candidates, MaxObjs) :
       LET c == NewCall("list", op, e, t, objs)
       IN calls' = [calls EXCEPT ![t] =
                      IF objs = <<>> THEN [c EXCEPT !.pc = "done", !.i = 0] ELSE c]
  /\ UNCHANGED <<PRIMITIVES, engines, rules, clock, probe, trial>>

\* line 142: self.user = self.get_user(bundle.request)
NormUser(t) ==
  LET c == [calls[t] EXCEPT !.norms = @ + 1, !.seen = {}]
  IN /\ c.pc = "user"
     /\ \E rows \in DbStates :
          LET o == get_user(PyRequest(c.req), rows)
          IN IF Raised(o)
             THEN /\ calls' = [calls EXCEPT ![t] = Abort(c, o)]
                  /\ UNCHANGED engines
             ELSE /\ engines' = [engines EXCEPT ![c.eng].user = o.val]
                  /\ calls' = [calls EXCEPT ![t] =
                                 [c EXCEPT !.pc = "request", !.own = o.val]]
     /\ UNCHANGED <<PRIMITIVES, rules, clock, probe, trial>>

\* lines 143-145: self.request = bundle.request; lookups = {}
NormRequest(t) ==
  LET c == calls[t]
      c1 == [c EXCEPT !.lookups = {}, !.gated = {}, !.ri = 1]
  IN /\ c.pc = "request"
     /\ engines' = [engines EXCEPT ![c.eng].request = PyRequest(c.req)]
     /\ calls' = [calls EXCEPT ![t] =
                    IF RuleFor(c.op) = <<>> THEN EnterResolve(c1)
                    ELSE [c1 EXCEPT !.pc = "rules"]]
     /\ UNCHANGED <<PRIMITIVES, rules, clock, probe, trial>>

\* lines 146-153: one rule; a sentinel is given self.user
NormRule(t) ==
  LET c == calls[t]
      rule == RuleFor(c.op)[c.ri]
      user == engines[c.eng].user
      kept == rule.sentinel # "" /\ ~Sentinel(rule.sentinel, user)
      c1 == [c EXCEPT !.lookups = ApplyRule(@, rule, user),
                      !.seen = IF rule.sentinel # ""
                               THEN @ \cup {[w |-> "sentinel", v |-> user]}
                               ELSE @,
                      !.gated = IF kept THEN @ \cup {c.ri} ELSE @,
                      !.ri = @ + 1]
  IN /\ c.pc = "rules"
     /\ calls' = [calls EXCEPT ![t] =
                    IF c.ri = Len(RuleFor(c.op)) THEN EnterResolve(c1) ELSE c1]
     /\ UNCHANGED <<PRIMITIVES, engines, rules, clock, probe, trial>>

\* which failure of a lookup an exception of ResolveRhs is
ResolveFailure(v, reg) ==
  IF PrimitivesGet(reg, Split(v)[1]) = Absent THEN "primitive" ELSE "path"

\* lines 154-158: one item of lookups, in the order the dict gives
NormResolve(t) ==
  LET c == calls[t]
  IN /\ c.pc = "resolve"
     /\ \E key \in c.todo :
          LET v == DictGet(c.lookups, key)
              o == ResolveRhs(v, PRIMITIVES, engines, clock)
              root == Provide(PrimitivesGet(PRIMITIVES, Split(v)[1]), engines, clock)
              c1 == [c EXCEPT !.seen =
                        IF Split(v)[1] \in {s_user, s_request} /\ ~Raised(root)
                        THEN @ \cup {[w |-> IF Split(v)[1] = s_user THEN "user"
                                            ELSE "request",
                                      v |-> root.val]}
                        ELSE @]
          IN calls' = [calls EXCEPT ![t] =
               IF Raised(o)
               THEN Abort([c1 EXCEPT !.fail = ResolveFailure(v, PRIMITIVES)], o)
               ELSE LET c2 == [c1 EXCEPT !.out = DictSet(@, key, o.val),
                                         !.todo = @ \ {key}]
                    IN IF c2.todo = {} THEN EnterCompare(c2) ELSE c2]
     /\ UNCHANGED <<PRIMITIVES, engines, rules, clock, probe, trial>>

\* which failure of a lookup an exception of CompareKey is
CompareFailure(exc) ==
  CASE exc = "AttributeError" -> "path"
    [] exc = "LookupError" -> "comparator"
    [] OTHER -> ""

\* lines 190-192: one turn of the loop of validate_detail
Compare(t) ==
  LET c == calls[t]
  IN /\ c.pc = "compare"
     /\ \E key \in c.todo :
          LET o == CompareKey(PyObj(c.objs[c.i]), key)
              c1 == [c EXCEPT !.todo = @ \ {key}]
          IN calls' = [calls EXCEPT ![t] =
               IF Raised(o) THEN Abort([c1 EXCEPT !.fail = CompareFailure(o.exc)], o)
               ELSE IF ~Truthy(o.val) THEN FinishObject(c1, PyBool(FALSE))
               ELSE IF c1.todo = {} THEN FinishObject(c1, PyBool(TRUE))
               ELSE c1]
     /\ UNCHANGED <<PRIMITIVES, engines, rules, clock, probe, trial>>

\* RelationalAuthorization(primitives) for one more resource
Construct(e) ==
  /\ ~engines[e].built
  /\ \E primitives \in PrimArgs :
       PRIMITIVES' = RegisterPrimitives(PRIMITIVES, e, primitives)
  /\ engines' = [engines EXCEPT ![e].built = TRUE]
  /\ UNCHANGED <<rules, clock, calls, probe, trial>>

\* a day passes
Tick ==
  /\ clock < MaxClock
  /\ clock' = clock + 1
  /\ UNCHANGED <<PRIMITIVES, engines, rules, calls, probe, trial>>

\* the steps of a call under way
Run(t) ==
  \/ NormUser(t)
  \/ NormRequest(t)
  \/ NormRule(t)
  \/ NormResolve(t)
  \/ Compare(t)

Environment ==
  \/ \E e \in Engines : Construct(e)
  \/ Tick

\* the elements of a sequence, last first
RECURSIVE Reverse(_)
Reverse(s) == IF s = <<>> THEN <<>> ELSE Append(Reverse(Tail(s)), Head(s))

\* The engine of one resource is built, with the default primitives={}; its
\* rules name create and update, and no rule set is given for delete.
InitWith(ruleSets) ==
  /\ PRIMITIVES = RegisterPrimitives(ClassPrimitives, 1, NoPrimitives)
  /\ engines = [e \in Engines |-> IF e = 1 THEN [NoEngine EXCEPT !.built = TRUE]
                                  ELSE NoEngine]
  /\ \E rs \in ruleSets :
       rules = [o \in {"create", "update"} |->
                  IF o = "create" THEN rs ELSE Reverse(rs)]
  /\ clock = 0
  /\ calls = [t \in Threads |-> NoCall]
  /\ probe = NoProbe
  /\ trial = NoTrial

(***************************************************************************)
(* One thread serves the requests.                                         *)
(***************************************************************************)
Init == InitWith(SeqsUpTo(RuleUniverse, MaxRules))

Next == DetailCall(1) \/ ListCall(1) \/ Run(1) \/ Environment

Spec == Init /\ [][Next]_vars

(***************************************************************************)
(* Properties of one thread's calls.                                       *)
(***************************************************************************)
\* satisfies(candidate, obligation) as the design states it: the left path
\* is walked from the candidate, and its last name is an attribute, the
\* keyword in or a comparator
satisfies(candidate, lhs, value) ==
  LET lookups == Split(lhs)
      n == Len(lookups)
      l == Traverse(candidate, SubSeq(lookups, 1, n - 1))
  IN IF Raised(l) THEN l ELSE LastLeg(l.val, lookups[n], value)

Holds(o) == ~Raised(o) /\ Truthy(o.val)

\* C1: a detail call whose rule set was normalized returns true exactly
\* when satisfies holds, on the candidate, for every obligation the
\* normalization gave.
C1_DetailIffAllSatisfied ==
  \A t \in Threads :
    LET c == calls[t]
    IN (c.pc = "done" /\ c.kind = "detail" /\ Len(c.obls) = 1)
       => ((c.res = Ret(PyBool(TRUE)))
           <=> \A x \in c.obls[1] : Holds(satisfies(PyObj(c.objs[1]), x.k, x.v)))

\* what a call has read as user and request is its own user and request
ReadsItsOwn(c) ==
  \A x \in c.seen :
    IF x.w = "request" THEN x.v = PyRequest(c.req) ELSE x.v = c.own

\* C3: once the first engine is built, its primitives stay the ones its
\* constructor registered, names and providers alike, whatever engine is
\* built later, and a call on it reads its own user and request.
C3_RegistryFixedAtConstruction ==
  /\ PRIMITIVES = RegisterPrimitives(ClassPrimitives, 1, NoPrimitives)
  /\ \A t \in Threads : calls[t].eng = 1 => ReadsItsOwn(calls[t])

\* the dict the rules 1..i give when the rules in gated give nothing
RECURSIVE KeptLookups(_, _, _)
KeptLookups(rs, i, gated) ==
  IF i = 0 THEN {}
  ELSE IF i \in gated THEN KeptLookups(rs, i - 1, gated)
  ELSE DictSet(KeptLookups(rs, i - 1, gated), rs[i].lhs, rs[i].rhs)

\* C5: a sentinel rule whose predicate returned false leaves nothing in
\* lookups, neither a key nor a value; and a detail call all of whose rules
\* were kept out by their sentinels has no obligation and returns true.
C5_GatedRuleGivesNoObligation ==
  \A t \in Threads :
    LET c == calls[t]
        rs == RuleFor(c.op)
    IN /\ c.pc = "rules" => c.lookups = KeptLookups(rs, c.ri - 1, c.gated)
       /\ c.pc \in {"resolve", "compare"}
            => c.lookups = KeptLookups(rs, Len(rs), c.gated)
       /\ (c.pc = "done" /\ c.kind = "detail" /\ rs # <<>>
           /\ c.gated = 1..Len(rs))
            => c.obls = <<{}>> /\ c.res = Ret(PyBool(TRUE))

C5_Witness ==
  \E t \in Threads :
    LET c == calls[t]
    IN /\ c.pc = "done" /\ c.kind = "detail"
       /\ RuleFor(c.op) # <<>> /\ c.gated = 1..Len(RuleFor(c.op))
       /\ c.res = Ret(PyBool(TRUE))

\* C6: a call that met an unknown primitive, a missing path segment or a
\* missing comparator has ended, and ended with the exception: it gave no
\* verdict and no list.
C6_LookupFailureEndsInError ==
  \A t \in Threads :
    calls[t].fail # "" => calls[t].pc = "done" /\ Raised(calls[t].res)

C6_Witness ==
  \E t \in Threads :
    /\ calls[t].kind = "list" /\ calls[t].pc = "done"
    /\ calls[t].fail = "comparator" /\ Raised(calls[t].res)

\* the first n objects whose verdict is true, in their order
RECURSIVE FilterByVerdict(_, _, _)
FilterByVerdict(objs, verdicts, n) ==
  IF n = 0 THEN <<>>
  ELSE IF Truthy(verdicts[n])
       THEN Append(FilterByVerdict(objs, verdicts, n - 1), objs[n])
       ELSE FilterByVerdict(objs, verdicts, n - 1)

\* C7: the list a list call returns holds, in the order of the input,
\* exactly the objects for which validate_detail returned true.
C7_ListIsFilteredInput ==
  \A t \in Threads :
    LET c == calls[t]
    IN (c.kind = "list" /\ c.pc = "done" /\ ~Raised(c.res))
       => /\ Len(c.verdicts) = Len(c.objs)
          /\ c.allowed = FilterByVerdict(c.objs, c.verdicts, Len(c.objs))

C7_Witness ==
  \E t \in Threads :
    /\ calls[t].kind = "list" /\ calls[t].pc = "done" /\ ~Raised(calls[t].res)
    /\ calls[t].objs = <<2, 1>> /\ calls[t].allowed = <<2, 1>>

\* C8: a list call normalizes its rule set once, and checks every
\* object against the same obligations.
C8_NormalizedOncePerCall ==
  \A t \in Threads :
    LET c == calls[t]
    IN c.kind = "list"
       => /\ c.norms <= 1
          /\ \A i, j \in DOMAIN c.obls : c.obls[i] = c.obls[j]

\* What process_list does: it normalizes the rule set once for every object
\* it reaches, so a call that returns a list of n objects has resolved the
\* user and built the obligations n times.
NormalizedOncePerObject ==
  \A t \in Threads :
    LET c == calls[t]
    IN c.kind = "list"
       => /\ Len(c.verdicts) <= Len(c.obls) /\ Len(c.obls) <= c.norms
          /\ c.norms = IF c.pc = "user" THEN c.i - 1 ELSE c.i
          /\ (c.pc = "done" /\ ~Raised(c.res))
               => c.norms = Len(c.objs) /\ Len(c.obls) = Len(c.objs)

\* a list call whose two objects were held to different obligations
NormalizedTwiceDiffering ==
  \E t \in Threads :
    /\ calls[t].kind = "list" /\ calls[t].norms = 2
    /\ Len(calls[t].obls) = 2 /\ calls[t].obls[1] # calls[t].obls[2]

(***************************************************************************)
(* Two threads serve requests on the one engine.                           *)
(***************************************************************************)
ConcRules ==
  { Gated("isnot_super", Path2(s_owner, s_id), Path2(s_user, s_id)),
    Naked(s_id, Path2(s_user, s_id)),
    Naked(s_id, Path2(s_request, s_method)) }

InitConc == InitWith(SeqsUpTo(ConcRules, MaxRules))

\* thread 1 serves any call, thread 2 the detail calls
NextConc == DetailCall(1) \/ ListCall(1) \/ Run(1) \/ DetailCall(2) \/ Run(2)

SpecConc == InitConc /\ [][NextConc]_vars

\* C2: whatever the interleaving, a call gives its sentinels its own user
\* and resolves the primitives user and request to its own user and request.
C2_CallsReadTheirOwnContext ==
  \A t \in Threads : ReadsItsOwn(calls[t])

(***************************************************************************)
(* validate_detail applied to drawn arguments: a rule set, and the rule    *)
(* set with one more rule.                                                 *)
(***************************************************************************)
\* the rules drawn, one of them on a name str has
PureRules == RuleUniverse \cup {Naked(s_count, Path2(s_now, s_toordinal))}

TrialInit ==
  /\ PRIMITIVES = RegisterPrimitives(ClassPrimitives, 1, NoPrimitives)
  /\ engines = [e \in Engines |-> IF e = 1 THEN [NoEngine EXCEPT !.built = TRUE]
                                  ELSE NoEngine]
  /\ rules = [o \in {} |-> <<>>]
  /\ clock \in 0..MaxClock
  /\ calls = [t \in Threads |-> NoCall]
  /\ probe = NoProbe
  /\ trial \in [st : {"args"}, rs : SeqsUpTo(PureRules, MaxRules),
                extra : PureRules, rows : DbStates, obj : Candidates,
                base : {{}}, more : {{}}]

TrialApply ==
  /\ trial.st = "args"
  /\ trial' =
       [trial EXCEPT
          !.st = "done",
          !.base = validate_detail(1, PyObj(trial.obj), trial.rs, PyRequest(1),
                                   trial.rows, PRIMITIVES, engines, clock),
          !.more = validate_detail(1, PyObj(trial.obj),
                                   Append(trial.rs, trial.extra), PyRequest(1),
                                   trial.rows, PRIMITIVES, engines, clock)]
  /\ UNCHANGED <<PRIMITIVES, engines, rules, clock, calls, probe>>

SpecPure == TrialInit /\ [][TrialApply]_vars

Kind(o) ==
  IF Raised(o) THEN "error" ELSE IF Truthy(o.val) THEN "true" ELSE "false"

\* every rule of rs is one the candidate and the context answer: the user is
\* found, the right paths resolve, and satisfies gives true or false
Answerable(rs, obj, rows) ==
  \A n \in normalize_lookups(1, rs, PyRequest(1), rows, PRIMITIVES, engines, clock) :
    /\ n.exc = ""
    /\ \A x \in n.out : ~Raised(satisfies(PyObj(obj), x.k, x.v))

\* C4: with the context and the candidate fixed, and no lookup failing, one
\* more rule leaves a true result true or makes it false, and leaves a false
\* result false.
C4_MonotonicInRules ==
  (trial.st = "done" /\ Answerable(Append(trial.rs, trial.extra), trial.obj, trial.rows))
  => \A x \in trial.base, y \in trial.more :
       /\ Kind(x) = "true" => Kind(y) \in {"true", "false"}
       /\ Kind(x) = "false" => Kind(y) = "false"

ProbeLhs ==
  {PyStr(s) : s \in {s_count, s_in, s_eq, s_gte, s_lte, s_contains, s_level,
                     s_id, <<"i">>, <<>>, Path2(s_owner, s_id),
                     Path2(s_count, s_eq), Path2(s_count, s_in),
                     Path2(s_count, s_level), Path2(s_strip, s_gte)}}
  \cup {PyStrObj(1, s_level), PyStrObj(2, s_level), PyStrObj(3, s_gte),
        PyStrObj(4, s_in), PyStrObj(5, s_count), PyStrObj(1, Path2(s_level, s_gte)),
        PyStrObj(2, Path2(s_level, s_lte)), PyStrObj(2, Path2(s_level, s_eq))}

ProbeRhs ==
  {PyNone, PyInt(0), PyInt(1), PyInt(UserPk), PyStr(s_adminuser), PyStr(s_gte),
   PyStr(s_eq), PyStr(<<>>), PyDt(0), PyUser(FALSE)}

ProbeInit ==
  /\ PRIMITIVES = ClassPrimitives
  /\ engines = [e \in Engines |-> NoEngine]
  /\ rules = [o \in {} |-> <<>>]
  /\ clock = 0
  /\ calls = [t \in Threads |-> NoCall]
  /\ trial = NoTrial
  /\ probe \in [st : {"args"}, obj : {PyObj(1), PyObj(2)}, lhs : ProbeLhs,
             rhs : ProbeRhs, res : {Ret(PyNone)}]

ProbeApply ==
  /\ probe.st = "args"
  /\ probe' = [probe EXCEPT !.st = "done",
                            !.res = lhslookup(probe.obj, probe.lhs, probe.rhs)]
  /\ UNCHANGED <<PRIMITIVES, engines, rules, clock, calls, trial>>

SpecLookup == ProbeInit /\ [][ProbeApply]_vars

====
